---- MODULE Spec2Model ----
(***************************************************************************)
(* Model of the ynab-mcp tool dispatcher (src/ynab_mcp_server/server.py)   *)
(* and of its typed input models (src/ynab_mcp_server/tool_models.py).     *)
(*                                                                         *)
(* One tool invocation is an asyncio task running handle_call_tool.  The   *)
(* task is atomic between two awaits, so every action below is the code    *)
(* from one await (exclusive) to the next (inclusive): the service call    *)
(* together with the synchronous code that follows its return.             *)
(*                                                                         *)
(* ynab_client (the service client and its notes store) is not part of     *)
(* the sources; the service is a nondeterministic environment that may     *)
(* fail at every call, and the notes store follows section 4.2 of the      *)
(* specification.                                                          *)
(***************************************************************************)
EXTENDS FiniteSets, Integers, Sequences, TLC

(***************************************************************************)
(* Bounds                                                                  *)
(***************************************************************************)
MaxInvocations == 1
MaxOverviewOps == 2
MaxSupplied == 1
MaxTx == 1
MaxPayees == 2
MaxItems == 1
MaxGroups == 2
MaxCats == 2
MaxConcurrent == 2

(***************************************************************************)
(* Python values.  Every value carries its type, so that None, 0, False    *)
(* and "" are four different values, as they are in Python.                *)
(***************************************************************************)
None == [t |-> "none"]
S(s) == [t |-> "str", v |-> s]
I(n) == [t |-> "int", v |-> n]
B(b) == [t |-> "bool", v |-> b]
L(q) == [t |-> "list", v |-> q]
O(d) == [t |-> "dict", v |-> d]

\* Python truthiness of a value: bool(v).
Truthy(v) ==
    CASE v.t = "none" -> FALSE
      [] v.t = "str" -> v.v # ""
      [] v.t = "int" -> v.v # 0
      [] v.t = "bool" -> v.v
      [] v.t = "list" -> Len(v.v) > 0
      [] OTHER -> TRUE

\* A dict is a function from its keys; {} (and None, which the dispatcher
\* never tells apart from {}: "not arguments", "arguments or {}") is <<>>.
EmptyDict == <<>>

Merge(f, g) == [k \in (DOMAIN f) \cup (DOMAIN g) |-> IF k \in DOMAIN g THEN g[k] ELSE f[k]]

Drop(f, k) == [x \in (DOMAIN f) \ {k} |-> f[x]]

RECURSIVE SeqsUpTo(_, _)
SeqsUpTo(S_, n) ==
    IF n = 0 THEN {<<>>}
    ELSE LET shorter == SeqsUpTo(S_, n - 1)
         IN shorter \cup {Append(q, x) : q \in {r \in shorter : Len(r) = n - 1}, x \in S_}

RECURSIVE SumSeq(_)
SumSeq(q) == IF q = <<>> THEN 0 ELSE Head(q) + SumSeq(Tail(q))

(***************************************************************************)
(* The registered tools (handle_list_tools) and the shape of their inputs. *)
(***************************************************************************)
ToolNames ==
    {"list-budgets", "list-accounts", "list-transactions", "list-monthly-transactions",
     "list-categories", "list-payees", "rename-payees", "assign-budget-amount",
     "create-transaction", "update-transactions", "delete-transaction",
     "move-budget-amount", "list-scheduled-transactions", "get-financial-overview",
     "update-financial-overview-section", "refresh-financial-overview"}

\* Tools whose arguments go through a pydantic model (model_validate).
TypedTools ==
    {"list-accounts", "list-transactions", "list-monthly-transactions", "list-categories",
     "list-payees", "create-transaction", "update-transactions", "delete-transaction"}

\* Tools whose required keys are tested by hand before anything else.
AdHocTools ==
    {"rename-payees", "assign-budget-amount", "move-budget-amount",
     "update-financial-overview-section"}

\* Tools that resolve a budget id (every branch that calls _get_budget_id).
BudgetTools ==
    ToolNames \ {"list-budgets", "get-financial-overview", "update-financial-overview-section"}

\* A pydantic field: its type, whether it is required (Field(...)), its default.
\* (Optional[...] fields accept None; "approved: bool = False" does not.)
Req(ty) == [type |-> ty, required |-> TRUE, nullable |-> FALSE, default |-> None]
Opt(ty) == [type |-> ty, required |-> FALSE, nullable |-> TRUE, default |-> None]

BudgetIdInput == [budget_id |-> Opt("str")]

ListMonthlyTransactionsInput ==
    Merge(BudgetIdInput, [month |-> Req("str"), limit |-> Opt("int")])

CreateTransactionInput ==
    Merge(BudgetIdInput,
          [account_id |-> Req("str"), date |-> Req("str"), amount |-> Req("int"),
           payee_id |-> Opt("str"), payee_name |-> Opt("str"), category_id |-> Opt("str"),
           memo |-> Opt("str"), cleared |-> Opt("str"),
           approved |-> [type |-> "bool", required |-> FALSE, nullable |-> FALSE,
                        default |-> B(FALSE)],
           flag_color |-> Opt("str"), import_id |-> Opt("str")])

TransactionUpdate ==
    [id |-> Req("str"), account_id |-> Opt("str"), date |-> Opt("str"),
     amount |-> Opt("int"), category_id |-> Opt("str"), payee_id |-> Opt("str"),
     memo |-> Opt("str"), cleared |-> Opt("str"), approved |-> Opt("bool"),
     flag_color |-> Opt("str")]

UpdateTransactionsInput == Merge(BudgetIdInput, [transactions |-> Req("list")])

DeleteTransactionInput == Merge(BudgetIdInput, [transaction_id |-> Req("str")])

ListTransactionsInput ==
    Merge(BudgetIdInput,
          [account_id |-> Req("str"), since_date |-> Opt("str"), limit |-> Opt("int")])

\* The model class each typed branch of handle_call_tool validates with.
InputModel(tool) ==
    CASE tool = "list-transactions" -> ListTransactionsInput
      [] tool = "list-monthly-transactions" -> ListMonthlyTransactionsInput
      [] tool = "create-transaction" -> CreateTransactionInput
      [] tool = "update-transactions" -> UpdateTransactionsInput
      [] tool = "delete-transaction" -> DeleteTransactionInput
      [] OTHER -> BudgetIdInput

\* FieldOk with a required field that may be left out (it would then take
\* its default).
FieldOk_MissingAccepted(schema, d, k) ==
    IF k \notin DOMAIN d THEN TRUE
    ELSE IF d[k] = None THEN schema[k].nullable
    ELSE d[k].t = schema[k].type

\* pydantic accepts a field when it is present with a value of the field's
\* type, when it is Optional and None, or when it has a default and is absent.
FieldOk(schema, d, k) ==
    IF k \notin DOMAIN d THEN ~schema[k].required
    ELSE IF d[k] = None THEN schema[k].nullable
    ELSE d[k].t = schema[k].type

ModelOk(schema, d) == \A k \in DOMAIN schema : FieldOk(schema, d, k)

\* BaseModel.model_validate(d).model_dump(): every field of the model, an
\* absent field with its default; keys that are not fields are ignored.
ModelDump(schema, d) ==
    [k \in DOMAIN schema |-> IF k \in DOMAIN d THEN d[k] ELSE schema[k].default]

\* UpdateTransactionsInput also validates every element of "transactions"
\* as a TransactionUpdate.
TransactionsOk(d) ==
    /\ "transactions" \in DOMAIN d
    /\ d["transactions"].t = "list"
    /\ \A i \in 1..Len(d["transactions"].v) :
        /\ d["transactions"].v[i].t = "dict"
        /\ ModelOk(TransactionUpdate, d["transactions"].v[i].v)

\* <Model>.model_validate(arguments or {}) succeeds.
ValidateOk(tool, d) ==
    /\ ModelOk(InputModel(tool), d)
    /\ tool = "update-transactions" => TransactionsOk(d)

\* args.model_dump() of the validated model (nested models are dumped too).
ValidatedDump(tool, d) ==
    LET top == ModelDump(InputModel(tool), d)
    IN IF tool = "update-transactions"
       THEN [top EXCEPT !["transactions"] =
                L([i \in 1..Len(@.v) |-> O(ModelDump(TransactionUpdate, @.v[i].v))])]
       ELSE top

\* TransactionData filtering with "if v" in place of "if v is not None".
TransactionData_Truthy(dump) ==
    [k \in {x \in DOMAIN dump : Truthy(dump[x]) /\ x # "budget_id"} |-> dump[k]]

\* {k: v for k, v in args.model_dump().items() if v is not None and k != "budget_id"}
TransactionData(dump) ==
    [k \in {x \in DOMAIN dump : dump[x] # None /\ x # "budget_id"} |-> dump[k]]

\* {k: v for k, v in tx.model_dump().items() if v is not None}
UpdateData(txdump) ==
    [k \in {x \in DOMAIN txdump : txdump[x] # None} |-> txdump[k]]

\* The list comprehension building "updates" from args.transactions.
Updates(dump) ==
    [i \in 1..Len(dump["transactions"].v) |-> UpdateData(dump["transactions"].v[i].v)]

\* The required keys the ad hoc branches test with "not in arguments".
RequiredKeys(tool) ==
    CASE tool = "rename-payees" -> {"payee_ids", "name"}
      [] tool = "assign-budget-amount" -> {"month", "category_id", "amount"}
      [] tool = "move-budget-amount" -> {"month", "from_category_id", "to_category_id", "amount"}
      [] tool = "update-financial-overview-section" -> {"section", "data"}
      [] OTHER -> {}

\* AdHocMissing testing the values too ("not arguments.get(k)"): an empty
\* list, an empty string or 0 counts as missing.
AdHocMissing_Falsy(tool, d) ==
    \/ d = EmptyDict
    \/ \E k \in RequiredKeys(tool) : k \notin DOMAIN d \/ ~Truthy(d[k])

\* "not arguments or k1 not in arguments or ..."
AdHocMissing(tool, d) ==
    \/ d = EmptyDict
    \/ \E k \in RequiredKeys(tool) : k \notin DOMAIN d

\* HasExplicitBudget with the early return lost: the default is always used.
HasExplicitBudget_AlwaysDefault(d) ==
    /\ d # EmptyDict
    /\ "budget_id" \in DOMAIN d
    /\ Truthy(d["budget_id"])
    /\ FALSE

\* _get_budget_id: the arguments carry a usable budget id.
HasExplicitBudget(d) ==
    /\ d # EmptyDict
    /\ "budget_id" \in DOMAIN d
    /\ Truthy(d["budget_id"])

\* new_from_budgeted, new_to_budgeted of the move-budget-amount branch.
NewFromBudgeted(from_budgeted, amount) == from_budgeted - amount

\* NewToBudgeted with the sign of the from side.
NewToBudgeted_Minus(to_budgeted, amount) == to_budgeted - amount

NewToBudgeted(to_budgeted, amount) == to_budgeted + amount

\* UnknownToolError without the name in its message.
UnknownToolError_NoName(tool) ==
    [status |-> "error", kind |-> "ValueError", msg |-> <<S("Unknown tool")>>]

\* The errors the dispatcher raises by itself.
UnknownToolError(tool) ==
    [status |-> "error", kind |-> "ValueError", msg |-> <<S("Unknown tool:"), S(tool)>>]

MissingArgumentsError(tool) ==
    [status |-> "error", kind |-> "ValueError",
     msg |-> IF tool = "rename-payees"
             THEN <<S("Missing required arguments payee_ids and name")>>
             ELSE IF tool = "update-financial-overview-section"
                  THEN <<S("Missing required arguments section and data")>>
                  ELSE <<S("Missing required arguments")>>]

ValidationError(tool) ==
    [status |-> "error", kind |-> "ValidationError", msg |-> <<S(tool)>>]

\* An exception of the service client, propagated unchanged.
UpstreamServiceError(op) ==
    [status |-> "error", kind |-> "UpstreamServiceError", msg |-> <<S(op)>>]

\* return [types.TextContent(type="text", text=...)]
TextResult(text) ==
    [status |-> "ok", content |-> <<[type |-> "text", text |-> text]>>]

(***************************************************************************)
(* refresh-financial-overview: the figures computed from the service data. *)
(***************************************************************************)
\* A Python float, kept exact as the quotient num / den.
Rat(n, d) == [num |-> n, den |-> d]

RatEq(a, b) == a.num * b.den = b.num * a.den

\* VisibleBudgeted without the "if not cat.hidden".
RECURSIVE VisibleBudgeted_All(_)
VisibleBudgeted_All(cats) ==
    IF cats = <<>> THEN 0 ELSE Head(cats).budgeted + VisibleBudgeted_All(Tail(cats))

\* sum(cat.budgeted for cat in group.categories if not cat.hidden)
RECURSIVE VisibleBudgeted(_)
VisibleBudgeted(cats) ==
    IF cats = <<>> THEN 0
    ELSE (IF Head(cats).hidden THEN 0 ELSE Head(cats).budgeted) + VisibleBudgeted(Tail(cats))

\* The loop "for group in categories" over the three running totals.
RECURSIVE GroupTotals(_, _)
GroupTotals(groups, acc) ==
    IF groups = <<>> THEN acc
    ELSE LET g == Head(groups)
             s == VisibleBudgeted(g.categories)
         IN GroupTotals(Tail(groups),
                IF g.name = "Bills" THEN [acc EXCEPT !.fixed_bills = s]
                ELSE IF g.name = "Wants" THEN [acc EXCEPT !.discretionary_spending = s]
                ELSE IF g.name = "Savings" THEN [acc EXCEPT !.savings = s]
                ELSE acc)

ZeroTotals == [fixed_bills |-> 0, discretionary_spending |-> 0, savings |-> 0]

\* savings_rate = (savings / total_budgeted * 100) if total_budgeted > 0 else 0
SavingsRate(t) ==
    LET total_budgeted == t.fixed_bills + t.discretionary_spending + t.savings
    IN IF total_budgeted > 0 THEN Rat(t.savings * 100, total_budgeted) ELSE Rat(0, 1)

\* The dict stored as overview["monthly_overview"].
MonthlyOverview(groups) ==
    LET t == GroupTotals(groups, ZeroTotals)
    IN [fixed_bills |-> Rat(t.fixed_bills, 1000),
        discretionary_spending |-> Rat(t.discretionary_spending, 1000),
        savings_rate |-> SavingsRate(t)]

\* {acc.name: acc.balance / 1000 for acc in accounts}: a later account
\* replaces an earlier one of the same name.
AccountBalances(accounts) ==
    LET names == {accounts[i].name : i \in 1..Len(accounts)}
        last(n) == CHOOSE i \in 1..Len(accounts) :
                       /\ accounts[i].name = n
                       /\ \A j \in 1..Len(accounts) : accounts[j].name = n => j <= i
    IN [n \in names |-> Rat(accounts[last(n)].balance, 1000)]

\* RefreshedOverview building a new document from the two sections alone.
RefreshedOverview_Fresh(overview_, account_balances, monthly_overview) ==
    [account_balances |-> O(account_balances), monthly_overview |-> O(monthly_overview)]

\* overview["account_balances"] = ...; overview["monthly_overview"] = ...
RefreshedOverview(overview_, account_balances, monthly_overview) ==
    Merge(overview_, [account_balances |-> O(account_balances),
                      monthly_overview |-> O(monthly_overview)])

(***************************************************************************)
(* The notes store of ynab_client (section 4.2 of the specification).      *)
(***************************************************************************)
Stamp(now) == [t |-> "time", v |-> now]

\* load(): the stored document, the empty document when none was stored.
LoadOverview(stored) == stored

\* save(document): writes the whole document and stamps last_updated.
SaveOverview(document, now) == Merge(document, [last_updated |-> Stamp(now)])

\* update_section(name, data): load, replace or insert the key, save.
UpdateOverviewSection(stored, section, data, now) ==
    SaveOverview(Merge(LoadOverview(stored), [k \in {section} |-> data]), now)

(***************************************************************************)
(* The service: budgets, months, categories and what its calls return.     *)
(***************************************************************************)
DefaultBudget == "budget-default"
OtherBudget == "budget-other"
Budgets == {DefaultBudget, OtherBudget}
Months == {"2024-01-01", "2024-02-01"}
Cats == {"catA", "catB"}
BudgetAmounts == {-1, 2}
TxAmounts == {-5, 0, 7}

\* The amounts budgeted before the first invocation, all different.
InitBudgeted(b, m, c) ==
    (IF c = "catA" THEN 10 ELSE 5)
    + (IF m = "2024-01-01" THEN 0 ELSE 20)
    + (IF b = DefaultBudget THEN 0 ELSE 40)

Items == {"item1"}
ItemLists == SeqsUpTo(Items, MaxItems)

Accounts == {[id |-> "acc1", name |-> "Checking", balance |-> 1500, type |-> "checking"]}
AccountLists == SeqsUpTo(Accounts, MaxItems)

GroupNames == {"Bills", "Wants", "Savings", "Other"}
Categories ==
    {[budgeted |-> -1, hidden |-> FALSE], [budgeted |-> 2, hidden |-> FALSE],
     [budgeted |-> 2, hidden |-> TRUE]}

CategoryGroups(maxCats, hiddenVals) ==
    {[name |-> n, hidden |-> h, categories |-> cs] :
        n \in GroupNames, h \in hiddenVals, cs \in SeqsUpTo(Categories, maxCats)}

\* The responses of get_categories with at most maxGroups groups and at most
\* maxCats categories in all.
RECURSIVE CategoryGroupLists(_, _, _)
CategoryGroupLists(maxGroups, maxCats, hiddenVals) ==
    IF maxGroups = 0 THEN {<<>>}
    ELSE {<<>>} \cup
         UNION {{<<g>> \o q :
                    q \in CategoryGroupLists(maxGroups - 1, maxCats - Len(g.categories),
                                             hiddenVals)} :
                g \in CategoryGroups(maxCats, hiddenVals)}

\* What get_categories returns to the tools of the general specification,
\* and to the refresh of the specification that explores its arithmetic.
FewCategoryGroupLists == CategoryGroupLists(1, 1, BOOLEAN)
ManyCategoryGroupLists == CategoryGroupLists(MaxGroups, MaxCats, {FALSE})

(***************************************************************************)
(* The invocations the transport may deliver: a name and an argument dict. *)
(***************************************************************************)
BudgetIdChoices ==
    {EmptyDict, [budget_id |-> None], [budget_id |-> S("")], [budget_id |-> S(OtherBudget)]}

WithBudget(D) == {Merge(d, b) : d \in D, b \in BudgetIdChoices}

\* The same with the key absent or naming the other budget only.
WithSomeBudget(D) == {Merge(d, b) : d \in D, b \in {EmptyDict, [budget_id |-> S(OtherBudget)]}}

\* Every dict of D, and one dict of D with one of the keys K removed.
WithMissing(D, K) == D \cup {Drop(CHOOSE d \in D : TRUE, k) : k \in K}

OptionalValues(type) ==
    CASE type = "str" -> {S("x"), None}
      [] type = "int" -> {I(0), I(-5), None}
      [] type = "bool" -> {B(FALSE), None}
      [] OTHER -> {None}

\* The dicts giving a value (or an explicit None) to at most max of the
\* optional fields F of a model.
OptionalDicts(schema, F, max) ==
    UNION {{g \in [T -> UNION {OptionalValues(ty) : ty \in {"str", "int", "bool"}}] :
                \A k \in T : g[k] \in OptionalValues(schema[k].type)} :
            T \in {U \in SUBSET F : Cardinality(U) <= max}}

CreateOptional ==
    {"payee_id", "payee_name", "category_id", "memo", "cleared", "approved", "flag_color",
     "import_id"}

\* create-transaction: every amount with the required fields alone, and
\* amount 0 with up to MaxSupplied optional fields.
CreateArguments ==
    LET required == {[account_id |-> S("acc1"), date |-> S("2024-01-15"), amount |-> I(a)] :
                        a \in TxAmounts}
        zero == [account_id |-> S("acc1"), date |-> S("2024-01-15"), amount |-> I(0)]
    IN WithSomeBudget({Merge(zero, o) :
                          o \in OptionalDicts(CreateTransactionInput, CreateOptional,
                                              MaxSupplied)})
       \cup WithBudget(WithMissing(required, {"account_id", "date", "amount"}))

\* The update records with an id and at most max optional fields.
UpdateRecords(max) ==
    {Merge([id |-> S("tx1")], o) :
        o \in OptionalDicts(TransactionUpdate, DOMAIN TransactionUpdate \ {"id"}, max)}

\* The lists of at most n update records in which the optional fields of a
\* record and the records after it number at most max.
RECURSIVE UpdateLists(_, _)
UpdateLists(n, max) ==
    IF n = 0 THEN {<<>>}
    ELSE {<<>>} \cup
         UNION {{<<O(r)>> \o q : q \in UpdateLists(n - 1, max - Cardinality(DOMAIN r))} :
                r \in UpdateRecords(max)}

UpdateArguments ==
    WithSomeBudget({[transactions |-> L(q)] : q \in UpdateLists(MaxTx, MaxSupplied)})
    \cup WithBudget({EmptyDict, [transactions |-> L(<<O([memo |-> S("x")])>>)]})

MoveArguments ==
    WithBudget(WithMissing(
        {[month |-> S(m), from_category_id |-> S(f), to_category_id |-> S(t), amount |-> I(a)] :
            m \in Months, f \in Cats, t \in Cats, a \in BudgetAmounts},
        {"month", "from_category_id", "to_category_id", "amount"}))

AssignArguments ==
    WithBudget(WithMissing(
        {[month |-> S(m), category_id |-> S(c), amount |-> I(a)] :
            m \in Months, c \in Cats, a \in BudgetAmounts},
        {"month", "category_id", "amount"}))

RenameArguments ==
    WithBudget(WithMissing(
        {[payee_ids |-> L(q), name |-> S("X")] : q \in SeqsUpTo({S("payee1")}, MaxPayees)},
        {"payee_ids", "name"}))

SectionNames == {"goals", "action_items", "account_balances", "last_updated"}
SectionData == {O([target |-> I(5000)]), L(<<S("review budget")>>)}

SectionArguments ==
    WithMissing({[section |-> S(n), data |-> d] : n \in SectionNames, d \in SectionData},
                {"section", "data"})

ArgumentsOf(tool) ==
    CASE tool \in {"list-budgets", "get-financial-overview"} -> {EmptyDict}
      [] tool = "list-transactions" ->
            WithBudget(WithMissing({[account_id |-> S("acc1")],
                                    [account_id |-> S("acc1"), since_date |-> S("2024-01-01"),
                                     limit |-> I(1)]}, {"account_id"}))
      [] tool = "list-monthly-transactions" ->
            WithBudget(WithMissing({[month |-> S(m)] : m \in Months}, {"month"}))
      [] tool = "delete-transaction" ->
            WithBudget(WithMissing({[transaction_id |-> S("tx1")]}, {"transaction_id"}))
      [] tool = "create-transaction" -> CreateArguments
      [] tool = "update-transactions" -> UpdateArguments
      [] tool = "move-budget-amount" -> MoveArguments
      [] tool = "assign-budget-amount" -> AssignArguments
      [] tool = "rename-payees" -> RenameArguments
      [] tool = "update-financial-overview-section" -> SectionArguments
      [] OTHER -> BudgetIdChoices

UnknownNames == {"list_budgets", "transfer-funds"}

Invocations(tools) ==
    UNION {{[name |-> n, arguments |-> a] : a \in ArgumentsOf(n)} : n \in tools}

(***************************************************************************)
(* State                                                                   *)
(***************************************************************************)
Tasks == {"task1", "task2"}

VARIABLES
    pc,           \* pc[p]: where task p stands in handle_call_tool
    name,         \* name[p]: the tool name of p's invocation
    arguments,    \* arguments[p]: its argument dict
    local,        \* local[p]: the local variables of handle_call_tool set so far
    calls,        \* calls[p]: the service and notes calls p has issued, in order
    result,       \* result[p]: what the invocation returned or raised
    budgeted,     \* the service's budgeted amount per <<budget, month, category>>
    overview,     \* the overview document as stored by the notes store
    clock,        \* the time of the last save of the notes store
    invocations,  \* the number of invocations delivered so far
    before        \* before[p]: the service and the store when p's invocation arrived

vars ==
    <<pc, name, arguments, local, calls, result, budgeted, overview, clock, invocations, before>>

NoResult == [status |-> "none"]

Init ==
    /\ pc = [p \in Tasks |-> "idle"]
    /\ name = [p \in Tasks |-> ""]
    /\ arguments = [p \in Tasks |-> EmptyDict]
    /\ local = [p \in Tasks |-> EmptyDict]
    /\ calls = [p \in Tasks |-> <<>>]
    /\ result = [p \in Tasks |-> NoResult]
    /\ budgeted = [k \in Budgets \X Months \X Cats |-> InitBudgeted(k[1], k[2], k[3])]
    /\ overview = EmptyDict
    /\ clock = 0
    /\ invocations = 0
    /\ before = [p \in Tasks |-> EmptyDict]

(***************************************************************************)
(* Building blocks of the actions                                          *)
(***************************************************************************)
Goto(p, label) == pc' = [pc EXCEPT ![p] = label]

SetLocal(p, d) == local' = [local EXCEPT ![p] = Merge(@, d)]

\* A call of ynab_client that p issues; ok tells whether it returned.
Logged(p, op, kw, ok) ==
    calls' = [calls EXCEPT ![p] = Append(@, [op |-> op, kw |-> kw, ok |-> ok])]

\* The invocation ends: a return or an exception leaving handle_call_tool.
Finish(p, res) ==
    /\ result' = [result EXCEPT ![p] = res]
    /\ Goto(p, "done")

\* The awaited call raises: the exception leaves handle_call_tool.
Raises(p, op, kw) ==
    /\ Logged(p, op, kw, FALSE)
    /\ Finish(p, UpstreamServiceError(op))
    /\ UNCHANGED <<name, arguments, local, budgeted, overview, clock, invocations, before>>

\* A call that changes nothing this model tracks returns one of its possible
\* responses, kept in a local variable, and the tool returns the text
\* rendered from it: Outcomes pairs each response with that result.
Returns(p, op, kw, Outcomes) ==
    /\ \E o \in Outcomes :
        /\ Logged(p, op, kw, TRUE)
        /\ SetLocal(p, [response |-> o.response])
        /\ Finish(p, o.result)
    /\ UNCHANGED <<name, arguments, budgeted, overview, clock, invocations, before>>

\* The label of the first service call of a tool once the budget id is known.
FirstCall(tool) ==
    CASE tool = "move-budget-amount" -> "read_from"
      [] tool = "refresh-financial-overview" -> "get_accounts"
      [] OTHER -> "call"

\* budget_id = await _get_budget_id(d), up to its await: the synchronous
\* test of the arguments, with args the arguments the branch goes on with.
EnterBudget(p, args, d) ==
    IF HasExplicitBudget(d)
    THEN /\ SetLocal(p, [args |-> args, budget_id |-> d["budget_id"]])
         /\ Goto(p, FirstCall(name[p]))
    ELSE /\ SetLocal(p, [args |-> args])
         /\ Goto(p, "default_budget")

AtCall(p, tool) == pc[p] = "call" /\ name[p] = tool

(***************************************************************************)
(* Actions                                                                 *)
(***************************************************************************)
\* The transport delivers an invocation and task p starts handle_call_tool.
Invoke(p, invs, max) ==
    /\ pc[p] = "idle"
    /\ invocations < max
    /\ \E inv \in invs :
        /\ name' = [name EXCEPT ![p] = inv.name]
        /\ arguments' = [arguments EXCEPT ![p] = inv.arguments]
    /\ local' = [local EXCEPT ![p] = EmptyDict]
    /\ calls' = [calls EXCEPT ![p] = <<>>]
    /\ result' = [result EXCEPT ![p] = NoResult]
    /\ invocations' = invocations + 1
    /\ before' = [before EXCEPT ![p] = [budgeted |-> budgeted, overview |-> overview]]
    /\ Goto(p, "dispatch")
    /\ UNCHANGED <<budgeted, overview, clock>>

\* The transport sends the response; the task is over.
Return(p) ==
    /\ pc[p] = "done"
    /\ Goto(p, "idle")
    /\ name' = [name EXCEPT ![p] = ""]
    /\ arguments' = [arguments EXCEPT ![p] = EmptyDict]
    /\ local' = [local EXCEPT ![p] = EmptyDict]
    /\ calls' = [calls EXCEPT ![p] = <<>>]
    /\ result' = [result EXCEPT ![p] = NoResult]
    /\ before' = [before EXCEPT ![p] = EmptyDict]
    /\ UNCHANGED <<budgeted, overview, clock, invocations>>

\* No branch matches: raise ValueError(f"Unknown tool: {name}").
UnknownTool(p) ==
    /\ pc[p] = "dispatch"
    /\ name[p] \notin ToolNames
    /\ Finish(p, UnknownToolError(name[p]))
    /\ UNCHANGED <<name, arguments, local, calls, budgeted, overview, clock, invocations, before>>

\* The branches that start with <Model>.model_validate(arguments or {}).
DispatchTyped(p) ==
    /\ pc[p] = "dispatch"
    /\ name[p] \in TypedTools
    /\ IF ValidateOk(name[p], arguments[p])
       THEN LET dump == ValidatedDump(name[p], arguments[p])
            IN /\ EnterBudget(p, dump, dump)
               /\ UNCHANGED result
       ELSE /\ Finish(p, ValidationError(name[p]))
            /\ UNCHANGED local
    /\ UNCHANGED <<name, arguments, calls, budgeted, overview, clock, invocations, before>>

\* rename-payees, assign-budget-amount, move-budget-amount: the test of the
\* required keys, then _get_budget_id(arguments).
DispatchAdHoc(p) ==
    /\ pc[p] = "dispatch"
    /\ name[p] \in AdHocTools \cap BudgetTools
    /\ IF AdHocMissing(name[p], arguments[p])
       THEN /\ Finish(p, MissingArgumentsError(name[p]))
            /\ UNCHANGED local
       ELSE /\ EnterBudget(p, arguments[p], arguments[p])
            /\ UNCHANGED result
    /\ UNCHANGED <<name, arguments, calls, budgeted, overview, clock, invocations, before>>

\* list-scheduled-transactions, refresh-financial-overview: straight to
\* _get_budget_id(arguments); list-budgets: straight to its call.
DispatchUnchecked(p) ==
    /\ pc[p] = "dispatch"
    /\ name[p] \in ToolNames \ (TypedTools \cup AdHocTools \cup {"get-financial-overview"})
    /\ IF name[p] = "list-budgets"
       THEN /\ Goto(p, "call")
            /\ UNCHANGED local
       ELSE EnterBudget(p, arguments[p], arguments[p])
    /\ UNCHANGED <<name, arguments, calls, result, budgeted, overview, clock, invocations, before>>

\* budget = await ynab_client.get_default_budget(); return budget.id
GetDefaultBudget(p) ==
    /\ pc[p] = "default_budget"
    /\ \/ /\ Logged(p, "get_default_budget", EmptyDict, TRUE)
          /\ SetLocal(p, [budget_id |-> S(DefaultBudget)])
          /\ Goto(p, FirstCall(name[p]))
          /\ UNCHANGED <<name, arguments, result, budgeted, overview, clock, invocations, before>>
       \/ Raises(p, "get_default_budget", EmptyDict)

\* Listing without the "if not <items>" test: the header and the (empty)
\* list whatever the response.
Listing_NoEmptyTest(empty, header, r) ==
    TextResult(<<S(header), L(r)>>)

\* The listing branches: one call, then the "none found" text or the list.
Listing(empty, header, r) ==
    TextResult(IF r = <<>> THEN <<S(empty)>> ELSE <<S(header), L(r)>>)

ListBudgets(p) ==
    /\ AtCall(p, "list-budgets")
    /\ \/ Returns(p, "get_budgets", EmptyDict,
                  {[response |-> r,
                    result |-> Listing("No budgets found.",
                                       "Here are your available budgets:", r)] : r \in ItemLists})
       \/ Raises(p, "get_budgets", EmptyDict)

ListAccounts(p) ==
    /\ AtCall(p, "list-accounts")
    /\ LET kw == [budget_id |-> local[p]["budget_id"]]
       IN \/ Returns(p, "get_accounts", kw,
                     {[response |-> r, result |-> Listing("No accounts found for this budget.",
                             "Here are the accounts for budget", r)] : r \in AccountLists})
          \/ Raises(p, "get_accounts", kw)

ListTransactions(p) ==
    /\ AtCall(p, "list-transactions")
    /\ LET args == local[p]["args"]
           kw == [budget_id |-> local[p]["budget_id"], account_id |-> args["account_id"],
                  since_date |-> args["since_date"], limit |-> args["limit"]]
       IN \/ Returns(p, "get_transactions", kw,
                     {[response |-> r, result |-> Listing("No transactions found for this account.",
                             "Here are the latest transactions:", r)] : r \in ItemLists})
          \/ Raises(p, "get_transactions", kw)

ListMonthlyTransactions(p) ==
    /\ AtCall(p, "list-monthly-transactions")
    /\ LET args == local[p]["args"]
           kw == [budget_id |-> local[p]["budget_id"], month |-> args["month"],
                  limit |-> args["limit"]]
       IN \/ Returns(p, "get_monthly_transactions", kw,
                     {[response |-> r, result |-> Listing("No transactions found for this month.",
                             "Here are the transactions for", r)] : r \in ItemLists})
          \/ Raises(p, "get_monthly_transactions", kw)

\* The groups and categories list-categories prints: "if not group.hidden
\* and group.categories", "if not cat.hidden".
RECURSIVE ShownCategories(_)
ShownCategories(groups) ==
    IF groups = <<>> THEN <<>>
    ELSE LET g == Head(groups)
         IN (IF ~g.hidden /\ g.categories # <<>>
             THEN <<[name |-> g.name,
                     categories |-> SelectSeq(g.categories, LAMBDA c : ~c.hidden)]>>
             ELSE <<>>) \o ShownCategories(Tail(groups))

ListCategories(p) ==
    /\ AtCall(p, "list-categories")
    /\ LET kw == [budget_id |-> local[p]["budget_id"]]
       IN \/ Returns(p, "get_categories", kw,
                     {[response |-> r, result |-> TextResult(
                         IF r = <<>> THEN <<S("No categories found for this budget.")>>
                         ELSE <<S("Here are the available categories and their status for the current month:"),
                                L(ShownCategories(r))>>)] : r \in FewCategoryGroupLists})
          \/ Raises(p, "get_categories", kw)

ListPayees(p) ==
    /\ AtCall(p, "list-payees")
    /\ LET kw == [budget_id |-> local[p]["budget_id"]]
       IN \/ Returns(p, "get_payees", kw,
                     {[response |-> r, result |-> Listing("No payees found for this budget.",
                             "Here are the payees for budget", r)] : r \in ItemLists})
          \/ Raises(p, "get_payees", kw)

ListScheduledTransactions(p) ==
    /\ AtCall(p, "list-scheduled-transactions")
    /\ LET kw == [budget_id |-> local[p]["budget_id"]]
       IN \/ Returns(p, "get_scheduled_transactions", kw,
                     {[response |-> r, result |-> Listing("No scheduled transactions found.",
                             "Here are the scheduled transactions:", r)] : r \in ItemLists})
          \/ Raises(p, "get_scheduled_transactions", kw)

RenamePayees(p) ==
    /\ AtCall(p, "rename-payees")
    /\ LET args == local[p]["args"]
           kw == [budget_id |-> local[p]["budget_id"], payee_ids |-> args["payee_ids"],
                  name |-> args["name"]]
       IN \/ Returns(p, "update_payees", kw,
                     {[response |-> r, result |-> TextResult(<<S("Successfully renamed"),
                                             I(Len(args["payee_ids"].v)),
                                             S("payees to"), args["name"]>>)] : r \in {None}})
          \/ Raises(p, "update_payees", kw)

AssignBudgetAmount(p) ==
    /\ AtCall(p, "assign-budget-amount")
    /\ LET args == local[p]["args"]
           kw == [budget_id |-> local[p]["budget_id"], month |-> args["month"],
                  category_id |-> args["category_id"], amount |-> args["amount"]]
       IN \/ /\ Logged(p, "assign_budget_amount", kw, TRUE)
             /\ budgeted' = [budgeted EXCEPT
                    ![<<kw.budget_id.v, kw.month.v, kw.category_id.v>>] = kw.amount.v]
             /\ Finish(p, TextResult(<<S("Successfully assigned"), args["amount"],
                                       S("to category"), args["category_id"],
                                       S("for"), args["month"]>>))
             /\ UNCHANGED <<name, arguments, local, overview, clock, invocations, before>>
          \/ Raises(p, "assign_budget_amount", kw)

CreateTransaction(p) ==
    /\ AtCall(p, "create-transaction")
    /\ LET kw == [budget_id |-> local[p]["budget_id"],
                  transaction |-> O(TransactionData(local[p]["args"]))]
       IN \/ Returns(p, "create_transaction", kw,
                     {[response |-> r, result |-> TextResult(<<S("Successfully created transaction with ID:"),
                                             S(r)>>)] : r \in {"new-tx"}})
          \/ Raises(p, "create_transaction", kw)

UpdateTransactions(p) ==
    /\ AtCall(p, "update-transactions")
    /\ LET args == local[p]["args"]
           kw == [budget_id |-> local[p]["budget_id"], transactions |-> L(Updates(args))]
       IN \/ Returns(p, "update_transactions", kw,
                     {[response |-> r, result |-> TextResult(<<S("Successfully updated"),
                                             I(Len(args["transactions"].v)),
                                             S("transactions.")>>)] : r \in {None}})
          \/ Raises(p, "update_transactions", kw)

DeleteTransaction(p) ==
    /\ AtCall(p, "delete-transaction")
    /\ LET args == local[p]["args"]
           kw == [budget_id |-> local[p]["budget_id"],
                  transaction_id |-> args["transaction_id"]]
       IN \/ Returns(p, "delete_transaction", kw,
                     {[response |-> r, result |-> TextResult(<<S("Successfully deleted transaction"),
                                             args["transaction_id"]>>)] : r \in {None}})
          \/ Raises(p, "delete_transaction", kw)

\* move-budget-amount: from_cat = await get_month_category(budget_id, month,
\* from_category_id)
MoveReadFrom(p) ==
    /\ pc[p] = "read_from"
    /\ LET args == local[p]["args"]
           kw == [budget_id |-> local[p]["budget_id"], month |-> args["month"],
                  category_id |-> args["from_category_id"]]
       IN \/ /\ Logged(p, "get_month_category", kw, TRUE)
             /\ SetLocal(p, [from_cat |->
                    [name |-> kw.category_id.v,
                     budgeted |-> budgeted[<<kw.budget_id.v, kw.month.v, kw.category_id.v>>]]])
             /\ Goto(p, "read_to")
             /\ UNCHANGED <<name, arguments, result, budgeted, overview, clock, invocations, before>>
          \/ Raises(p, "get_month_category", kw)

\* to_cat = await get_month_category(budget_id, month, to_category_id), then
\* the two new amounts.
MoveReadTo(p) ==
    /\ pc[p] = "read_to"
    /\ LET args == local[p]["args"]
           kw == [budget_id |-> local[p]["budget_id"], month |-> args["month"],
                  category_id |-> args["to_category_id"]]
           to_budgeted == budgeted[<<kw.budget_id.v, kw.month.v, kw.category_id.v>>]
       IN \/ /\ Logged(p, "get_month_category", kw, TRUE)
             /\ SetLocal(p, [to_cat |-> [name |-> kw.category_id.v, budgeted |-> to_budgeted],
                             new_from_budgeted |->
                                 NewFromBudgeted(local[p]["from_cat"].budgeted, args["amount"].v),
                             new_to_budgeted |-> NewToBudgeted(to_budgeted, args["amount"].v)])
             /\ Goto(p, "assign_from")
             /\ UNCHANGED <<name, arguments, result, budgeted, overview, clock, invocations, before>>
          \/ Raises(p, "get_month_category", kw)

\* await assign_budget_amount(budget_id, month, from_category_id, new_from_budgeted)
MoveAssignFrom(p) ==
    /\ pc[p] = "assign_from"
    /\ LET args == local[p]["args"]
           kw == [budget_id |-> local[p]["budget_id"], month |-> args["month"],
                  category_id |-> args["from_category_id"],
                  amount |-> I(local[p]["new_from_budgeted"])]
       IN \/ /\ Logged(p, "assign_budget_amount", kw, TRUE)
             /\ budgeted' = [budgeted EXCEPT
                    ![<<kw.budget_id.v, kw.month.v, kw.category_id.v>>] = kw.amount.v]
             /\ Goto(p, "assign_to")
             /\ UNCHANGED <<name, arguments, local, result, overview, clock, invocations, before>>
          \/ Raises(p, "assign_budget_amount", kw)

\* await assign_budget_amount(budget_id, month, to_category_id, new_to_budgeted)
MoveAssignTo(p) ==
    /\ pc[p] = "assign_to"
    /\ LET args == local[p]["args"]
           kw == [budget_id |-> local[p]["budget_id"], month |-> args["month"],
                  category_id |-> args["to_category_id"],
                  amount |-> I(local[p]["new_to_budgeted"])]
       IN \/ /\ Logged(p, "assign_budget_amount", kw, TRUE)
             /\ budgeted' = [budgeted EXCEPT
                    ![<<kw.budget_id.v, kw.month.v, kw.category_id.v>>] = kw.amount.v]
             /\ Finish(p, TextResult(<<S("Successfully moved"), args["amount"], S("from category"),
                                       S(local[p]["from_cat"].name), S("to"),
                                       S(local[p]["to_cat"].name), S("for"), args["month"]>>))
             /\ UNCHANGED <<name, arguments, local, overview, clock, invocations, before>>
          \/ Raises(p, "assign_budget_amount", kw)

\* A failure of the notes store (unreadable or unwritable document): the
\* exception leaves handle_call_tool and the stored document is as before.
StoreError(op) == [status |-> "error", kind |-> "StoreError", msg |-> <<S(op)>>]

\* get-financial-overview: overview = ynab_client.notes.load_overview()
GetFinancialOverview(p) ==
    /\ pc[p] = "dispatch"
    /\ name[p] = "get-financial-overview"
    /\ \/ /\ Logged(p, "notes.load_overview", EmptyDict, TRUE)
          /\ LET doc == LoadOverview(overview)
             IN Finish(p, TextResult(<<S("Financial Overview (Last Updated:"),
                                       IF "last_updated" \in DOMAIN doc THEN doc["last_updated"]
                                       ELSE S("Never"),
                                       O(doc)>>))
       \/ /\ Logged(p, "notes.load_overview", EmptyDict, FALSE)
          /\ Finish(p, StoreError("notes.load_overview"))
    /\ UNCHANGED <<name, arguments, local, budgeted, overview, clock, invocations, before>>

\* UpdateFinancialOverviewSection with the document loaded when the
\* invocation starts and the save after a suspension: the save is computed
\* from the document as it was on arrival.
UpdateFinancialOverviewSection_Stale(p) ==
    /\ pc[p] = "dispatch"
    /\ name[p] = "update-financial-overview-section"
    /\ IF AdHocMissing(name[p], arguments[p])
       THEN /\ Finish(p, MissingArgumentsError(name[p]))
            /\ UNCHANGED <<calls, overview, clock>>
       ELSE LET section == arguments[p]["section"]
                data == arguments[p]["data"]
                kw == [section |-> section, data |-> data]
            IN /\ Logged(p, "notes.update_overview_section", kw, TRUE)
               /\ overview' = SaveOverview(
                      Merge(LoadOverview(before[p].overview), [k \in {section.v} |-> data]),
                      clock + 1)
               /\ clock' = clock + 1
               /\ Finish(p, TextResult(<<S("Successfully updated the"), section,
                                         S("section of the financial overview.")>>))
    /\ UNCHANGED <<name, arguments, local, budgeted, invocations, before>>

\* UpdateFinancialOverviewSection saving a document made of the section alone
\* (notes.save_overview({section: data})) instead of merging it.
UpdateFinancialOverviewSection_Overwrite(p) ==
    /\ pc[p] = "dispatch"
    /\ name[p] = "update-financial-overview-section"
    /\ IF AdHocMissing(name[p], arguments[p])
       THEN /\ Finish(p, MissingArgumentsError(name[p]))
            /\ UNCHANGED <<calls, overview, clock>>
       ELSE LET section == arguments[p]["section"]
                data == arguments[p]["data"]
                kw == [section |-> section, data |-> data]
            IN /\ Logged(p, "notes.save_overview", kw, TRUE)
               /\ overview' = SaveOverview([k \in {section.v} |-> data], clock + 1)
               /\ clock' = clock + 1
               /\ Finish(p, TextResult(<<S("Successfully updated the"), section,
                                         S("section of the financial overview.")>>))
    /\ UNCHANGED <<name, arguments, local, budgeted, invocations, before>>

\* update-financial-overview-section: the test of the required keys, then
\* ynab_client.notes.update_overview_section(section, data); no await.
UpdateFinancialOverviewSection(p) ==
    /\ pc[p] = "dispatch"
    /\ name[p] = "update-financial-overview-section"
    /\ IF AdHocMissing(name[p], arguments[p])
       THEN /\ Finish(p, MissingArgumentsError(name[p]))
            /\ UNCHANGED <<calls, overview, clock>>
       ELSE LET section == arguments[p]["section"]
                data == arguments[p]["data"]
                kw == [section |-> section, data |-> data]
            IN \/ /\ Logged(p, "notes.update_overview_section", kw, TRUE)
                  /\ overview' = UpdateOverviewSection(overview, section.v, data, clock + 1)
                  /\ clock' = clock + 1
                  /\ Finish(p, TextResult(<<S("Successfully updated the"), section,
                                            S("section of the financial overview.")>>))
               \/ /\ Logged(p, "notes.update_overview_section", kw, FALSE)
                  /\ Finish(p, StoreError("notes.update_overview_section"))
                  /\ UNCHANGED <<overview, clock>>
    /\ UNCHANGED <<name, arguments, local, budgeted, invocations, before>>

\* refresh-financial-overview: accounts = await get_accounts(budget_id=budget_id)
\* and the account_balances dict.
RefreshGetAccounts(p) ==
    /\ pc[p] = "get_accounts"
    /\ LET kw == [budget_id |-> local[p]["budget_id"]]
       IN \/ /\ \E r \in AccountLists :
                    SetLocal(p, [account_balances |-> AccountBalances(r)])
             /\ Logged(p, "get_accounts", kw, TRUE)
             /\ Goto(p, "get_categories")
             /\ UNCHANGED <<name, arguments, result, budgeted, overview, clock, invocations, before>>
          \/ Raises(p, "get_accounts", kw)

\* categories = await get_categories(budget_id=budget_id), the monthly
\* figures, and the load / update / save of the overview document.
RefreshGetCategories(p, lists) ==
    /\ pc[p] = "get_categories"
    /\ LET kw == [budget_id |-> local[p]["budget_id"]]
           entry(op, a, ok) == [op |-> op, kw |-> a, ok |-> ok]
       IN \/ /\ \E r \in lists :
                    /\ SetLocal(p, [categories |-> r,
                                    monthly_overview |-> MonthlyOverview(r)])
                    /\ overview' = SaveOverview(
                           RefreshedOverview(LoadOverview(overview),
                                             local[p]["account_balances"], MonthlyOverview(r)),
                           clock + 1)
             /\ clock' = clock + 1
             /\ calls' = [calls EXCEPT ![p] = @ \o
                    <<entry("get_categories", kw, TRUE),
                      entry("notes.load_overview", EmptyDict, TRUE),
                      entry("notes.save_overview", EmptyDict, TRUE)>>]
             /\ Finish(p, TextResult(
                    <<S("Successfully refreshed the financial overview with latest YNAB data.")>>))
             /\ UNCHANGED <<name, arguments, budgeted, invocations, before>>
          \/ /\ \E r \in lists : SetLocal(p, [categories |-> r,
                                               monthly_overview |-> MonthlyOverview(r)])
             /\ calls' = [calls EXCEPT ![p] = @ \o
                    <<entry("get_categories", kw, TRUE),
                      entry("notes.load_overview", EmptyDict, FALSE)>>]
             /\ Finish(p, StoreError("notes.load_overview"))
             /\ UNCHANGED <<name, arguments, budgeted, overview, clock, invocations, before>>
          \/ Raises(p, "get_categories", kw)

(***************************************************************************)
(* Specifications                                                          *)
(***************************************************************************)
\* Invocations arrive one after the other and one task handles them.
Serial == {"task1"}

Next ==
    \E p \in Serial :
        \/ Invoke(p, Invocations(ToolNames \cup UnknownNames), MaxInvocations)
        \/ Return(p)
        \/ UnknownTool(p)
        \/ DispatchTyped(p)
        \/ DispatchAdHoc(p)
        \/ DispatchUnchecked(p)
        \/ GetDefaultBudget(p)
        \/ ListBudgets(p)
        \/ ListAccounts(p)
        \/ ListTransactions(p)
        \/ ListMonthlyTransactions(p)
        \/ ListCategories(p)
        \/ ListPayees(p)
        \/ ListScheduledTransactions(p)
        \/ RenamePayees(p)
        \/ AssignBudgetAmount(p)
        \/ CreateTransaction(p)
        \/ UpdateTransactions(p)
        \/ DeleteTransaction(p)
        \/ MoveReadFrom(p)
        \/ MoveReadTo(p)
        \/ MoveAssignFrom(p)
        \/ MoveAssignTo(p)
        \/ GetFinancialOverview(p)
        \/ UpdateFinancialOverviewSection(p)
        \/ RefreshGetAccounts(p)
        \/ RefreshGetCategories(p, FewCategoryGroupLists)

Spec == Init /\ [][Next]_vars

\* The overview tools alone, several invocations in a row.
OverviewTools ==
    {"get-financial-overview", "update-financial-overview-section",
     "refresh-financial-overview"}

NextOverview ==
    \E p \in Serial :
        \/ Invoke(p, Invocations(OverviewTools), MaxOverviewOps)
        \/ Return(p)
        \/ DispatchUnchecked(p)
        \/ GetDefaultBudget(p)
        \/ GetFinancialOverview(p)
        \/ UpdateFinancialOverviewSection(p)
        \/ RefreshGetAccounts(p)
        \/ RefreshGetCategories(p, FewCategoryGroupLists)

SpecOverview == Init /\ [][NextOverview]_vars

\* One refresh-financial-overview over every response of get_categories.
RefreshInvocations ==
    {[name |-> "refresh-financial-overview", arguments |-> a] :
        a \in {EmptyDict, [budget_id |-> S(OtherBudget)]}}

NextRefresh ==
    \E p \in Serial :
        \/ Invoke(p, RefreshInvocations, 1)
        \/ DispatchUnchecked(p)
        \/ GetDefaultBudget(p)
        \/ RefreshGetAccounts(p)
        \/ RefreshGetCategories(p, ManyCategoryGroupLists)

SpecRefresh == Init /\ [][NextRefresh]_vars

\* Two tasks at once on the overview document: the event loop runs either
\* task whenever it is at a suspension point.
SectionTools == {"get-financial-overview", "update-financial-overview-section"}

NextSections ==
    \E p \in Tasks :
        \/ Invoke(p, Invocations(SectionTools), MaxConcurrent)
        \/ Return(p)
        \/ GetFinancialOverview(p)
        \/ UpdateFinancialOverviewSection(p)

SpecSections == Init /\ [][NextSections]_vars

\* Two move-budget-amount invocations in flight in one month: either task
\* runs whenever it is at one of its awaits.
MoveInvocations ==
    {[name |-> "move-budget-amount",
      arguments |-> Merge([month |-> S("2024-01-01"), from_category_id |-> S(f),
                           to_category_id |-> S(t), amount |-> I(a)], b)] :
        f \in Cats, t \in Cats, a \in BudgetAmounts,
        b \in {EmptyDict, [budget_id |-> S(OtherBudget)]}}

NextMoves ==
    \E p \in Tasks :
        \/ Invoke(p, MoveInvocations, MaxConcurrent)
        \/ DispatchAdHoc(p)
        \/ GetDefaultBudget(p)
        \/ MoveReadFrom(p)
        \/ MoveReadTo(p)
        \/ MoveAssignFrom(p)
        \/ MoveAssignTo(p)

SpecMoves == Init /\ [][NextMoves]_vars

(***************************************************************************)
(* Properties                                                              *)
(***************************************************************************)
NotesOps == {"notes.load_overview", "notes.save_overview", "notes.update_overview_section"}

Done(p) == pc[p] = "done"

Succeeded(p) == Done(p) /\ result[p].status = "ok"

Failed(p) == Done(p) /\ result[p].status = "error"

\* The positions of p's calls that go to the service and carry a budget id.
BudgetCalls(p) == {i \in 1..Len(calls[p]) : "budget_id" \in DOMAIN calls[p][i].kw}

Lookups(p) == {i \in 1..Len(calls[p]) : calls[p][i].op = "get_default_budget"}

\* The arguments name a budget: the key is there with a non-empty string.
NamesBudget(p) ==
    /\ "budget_id" \in DOMAIN arguments[p]
    /\ arguments[p]["budget_id"].t = "str"
    /\ arguments[p]["budget_id"].v # ""

\* C1: a tool that takes budget_id uses the budget its arguments name for
\* every service call and never asks for the default budget; when the
\* arguments name none (key absent, None or ""), its first call asks for the
\* default budget, only once, and every later call uses the id returned.
C1_BudgetResolution ==
    \A p \in Tasks :
        name[p] \in BudgetTools =>
            /\ \A i \in 1..Len(calls[p]) :
                   calls[p][i].op \notin NotesOps \cup {"get_default_budget"}
                       => i \in BudgetCalls(p)
            /\ IF NamesBudget(p)
               THEN /\ Lookups(p) = {}
                    /\ \A i \in BudgetCalls(p) :
                           calls[p][i].kw["budget_id"] = arguments[p]["budget_id"]
               ELSE /\ Lookups(p) \subseteq {1}
                    /\ calls[p] # <<>> => Lookups(p) = {1}
                    /\ \A i \in BudgetCalls(p) :
                           /\ calls[p][1].ok
                           /\ calls[p][i].kw["budget_id"] = S(DefaultBudget)

\* A move with budget_id "" has completed: one lookup, then four calls on
\* the default budget.
C1_Witness ==
    \E p \in Tasks :
        /\ Succeeded(p)
        /\ name[p] = "move-budget-amount"
        /\ "budget_id" \in DOMAIN arguments[p]
        /\ arguments[p]["budget_id"] = S("")
        /\ Len(calls[p]) = 5

\* The calls of p other than the default-budget lookup, in order.
AfterLookup(p) == SelectSeq(calls[p], LAMBDA c : c.op # "get_default_budget")

\* The budget p's invocation works on.
BudgetOf(p) == IF NamesBudget(p) THEN arguments[p]["budget_id"].v ELSE DefaultBudget

\* What the claim expects move-budget-amount to issue, from its arguments
\* and the amounts budgeted when the invocation arrived.
ExpectedMoveCalls(p) ==
    LET a == arguments[p]
        b == BudgetOf(p)
        m == a["month"].v
        from == a["from_category_id"].v
        to == a["to_category_id"].v
        x == a["amount"].v
        was(c) == before[p].budgeted[<<b, m, c>>]
        read(c) == [op |-> "get_month_category",
                    kw |-> [budget_id |-> S(b), month |-> S(m), category_id |-> S(c)]]
        assign(c, v) == [op |-> "assign_budget_amount",
                         kw |-> [budget_id |-> S(b), month |-> S(m), category_id |-> S(c),
                                 amount |-> I(v)]]
    IN <<read(from), read(to), assign(from, was(from) - x), assign(to, was(to) + x)>>

\* C2: move-budget-amount reads A then B for month M, then assigns
\* A.budgeted - x to A and then B.budgeted + x to B; at every moment its
\* calls are a prefix of that sequence, and a successful move has issued
\* all four and nothing else.
C2_MoveCallOrder ==
    \A p \in Tasks :
        (name[p] = "move-budget-amount" /\ ~AdHocMissing(name[p], arguments[p])
         /\ pc[p] # "idle") =>
            LET cs == AfterLookup(p)
                expected == ExpectedMoveCalls(p)
            IN /\ Len(cs) <= 4
               /\ \A i \in 1..Len(cs) :
                      /\ cs[i].op = expected[i].op
                      /\ cs[i].kw = expected[i].kw
                      /\ i < Len(cs) => cs[i].ok
               /\ Succeeded(p) => Len(cs) = 4 /\ cs[4].ok

\* A move between two different categories has completed.
C2_Witness ==
    \E p \in Tasks :
        /\ Succeeded(p)
        /\ name[p] = "move-budget-amount"
        /\ arguments[p]["from_category_id"] # arguments[p]["to_category_id"]
        /\ arguments[p]["amount"] = I(2)

\* C3: a move that completes leaves the from category lower by the amount
\* and the to category higher by the amount, so that their sum is what it
\* was, for every pair of category ids the tool accepts.
C3_Conservation ==
    \A p \in Tasks :
        (Succeeded(p) /\ name[p] = "move-budget-amount") =>
            LET a == arguments[p]
                from == <<BudgetOf(p), a["month"].v, a["from_category_id"].v>>
                to == <<BudgetOf(p), a["month"].v, a["to_category_id"].v>>
                x == a["amount"].v
            IN /\ budgeted[from] + budgeted[to]
                      = before[p].budgeted[from] + before[p].budgeted[to]
               /\ budgeted[from] = before[p].budgeted[from] - x
               /\ budgeted[to] = before[p].budgeted[to] + x

\* The fields the claim lists as required, tool by tool.
ClaimedRequired(tool) ==
    CASE tool = "list-transactions" -> {"account_id"}
      [] tool = "list-monthly-transactions" -> {"month"}
      [] tool = "create-transaction" -> {"account_id", "date", "amount"}
      [] tool = "update-transactions" -> {"transactions"}
      [] tool = "delete-transaction" -> {"transaction_id"}
      [] tool = "rename-payees" -> {"payee_ids", "name"}
      [] tool = "assign-budget-amount" -> {"month", "category_id", "amount"}
      [] tool = "move-budget-amount" -> {"month", "from_category_id", "to_category_id", "amount"}
      [] tool = "update-financial-overview-section" -> {"section", "data"}
      [] OTHER -> {}

\* The arguments of p lack a required field (for update-transactions also:
\* a record of the list lacks its id).
LacksRequired(p) ==
    \/ \E k \in ClaimedRequired(name[p]) : k \notin DOMAIN arguments[p]
    \/ /\ name[p] = "update-transactions"
       /\ "transactions" \in DOMAIN arguments[p]
       /\ \E i \in 1..Len(arguments[p]["transactions"].v) :
              "id" \notin DOMAIN arguments[p]["transactions"].v[i].v

\* C4: an invocation whose arguments lack a required field never issues a
\* call, to the service (the default-budget lookup included) or to the notes
\* store, changes neither the budget nor the overview document, and ends as
\* an error.
C4_ValidationFirst ==
    \A p \in Tasks :
        (pc[p] # "idle" /\ LacksRequired(p)) =>
            /\ calls[p] = <<>>
            /\ overview = before[p].overview
            /\ budgeted = before[p].budgeted
            /\ pc[p] \in {"dispatch", "done"}
            /\ Done(p) => result[p].status = "error"

\* A create-transaction without amount and without budget_id has failed.
C4_Witness ==
    \E p \in Tasks :
        /\ Failed(p)
        /\ name[p] = "create-transaction"
        /\ DOMAIN arguments[p] = {"account_id", "date"}
        /\ result[p].kind = "ValidationError"

\* C5: when the first assign of a move succeeds and the second fails, the
\* invocation fails, nothing is issued after the failed call, the from
\* category is left at from.budgeted - amount and the to category at the
\* amount it had before the move.
C5_PartialMove ==
    \A p \in Tasks :
        LET cs == AfterLookup(p)
        IN (Done(p) /\ name[p] = "move-budget-amount" /\ Len(cs) >= 4
            /\ cs[3].ok /\ ~cs[4].ok) =>
               LET a == arguments[p]
                   from == <<BudgetOf(p), a["month"].v, a["from_category_id"].v>>
                   to == <<BudgetOf(p), a["month"].v, a["to_category_id"].v>>
               IN /\ Failed(p)
                  /\ Len(cs) = 4
                  /\ budgeted[from] = before[p].budgeted[from] - a["amount"].v
                  /\ budgeted[to] = before[p].budgeted[to]

\* The transaction create-transaction has sent, and the records
\* update-transactions has sent.
CreateSent(p) ==
    {calls[p][i].kw["transaction"].v :
        i \in {j \in 1..Len(calls[p]) : calls[p][j].op = "create_transaction"}}

UpdateSent(p) ==
    {calls[p][i].kw["transactions"].v :
        i \in {j \in 1..Len(calls[p]) : calls[p][j].op = "update_transactions"}}

\* C6: create-transaction sends exactly the fields given with a value that
\* is not None, never budget_id, and approved (False when not given); every
\* record of update-transactions is sent with exactly its fields that are
\* not None; every value sent is the value given, 0 and negative amounts
\* included.
C6_AbsentFieldsNotSent ==
    \A p \in Tasks :
        /\ \A sent \in CreateSent(p) :
               LET a == arguments[p]
                   given == {k \in DOMAIN a : a[k] # None} \ {"budget_id"}
               IN /\ DOMAIN sent = given \cup {"approved"}
                  /\ \A k \in given : sent[k] = a[k]
                  /\ "approved" \notin given => sent["approved"] = B(FALSE)
        /\ \A sent \in UpdateSent(p) :
               LET records == arguments[p]["transactions"].v
               IN /\ Len(sent) = Len(records)
                  /\ \A i \in 1..Len(records) :
                         LET r == records[i].v
                             given == {k \in DOMAIN r : r[k] # None}
                         IN /\ DOMAIN sent[i] = given
                            /\ \A k \in given : sent[i][k] = r[k]

\* A create-transaction with amount 0, an explicit None memo and no approved
\* has sent its transaction.
C6_Witness ==
    \E p \in Tasks :
        /\ name[p] = "create-transaction"
        /\ CreateSent(p) # {}
        /\ arguments[p]["amount"] = I(0)
        /\ "memo" \in DOMAIN arguments[p]
        /\ arguments[p]["memo"] = None
        /\ "approved" \notin DOMAIN arguments[p]

\* The keys of the overview document other than the given ones and the
\* store's own last_updated stamp are present with the value they had when
\* the invocation arrived.
OthersKept(p, changed) ==
    \A k \in (DOMAIN before[p].overview) \ (changed \cup {"last_updated"}) :
        /\ k \in DOMAIN overview
        /\ overview[k] = before[p].overview[k]

SectionUpdated(p) == Succeeded(p) /\ name[p] = "update-financial-overview-section"

\* C7 as stated: after update-financial-overview-section(section, data) the
\* document's value for the section is data, whatever the section's name,
\* and every other section is kept (last_updated excepted).
C7_SectionIsData ==
    \A p \in Tasks :
        SectionUpdated(p) =>
            LET section == arguments[p]["section"].v
            IN /\ section \in DOMAIN overview
               /\ overview[section] = arguments[p]["data"]
               /\ OthersKept(p, {section})

\* C7, amended: after update-financial-overview-section(section, data) every
\* other section is kept (last_updated excepted) and the document's value
\* for the section is data, unless the section is named last_updated: that
\* key then holds the time of the save, not data.  This holds after every
\* sequence of updates.
C7_SectionUpdate ==
    \A p \in Tasks :
        SectionUpdated(p) =>
            LET section == arguments[p]["section"].v
            IN /\ section \in DOMAIN overview
               /\ overview[section] =
                      IF section = "last_updated" THEN Stamp(clock) ELSE arguments[p]["data"]
               /\ OthersKept(p, {section})

\* goals has been written into a document that already held action_items.
C7_Witness ==
    \E p \in Tasks :
        /\ SectionUpdated(p)
        /\ arguments[p]["section"] = S("goals")
        /\ "action_items" \in DOMAIN before[p].overview
        /\ "action_items" \in DOMAIN overview

Refreshed(p) == Succeeded(p) /\ name[p] = "refresh-financial-overview"

\* C8: a refresh that completes sets account_balances and monthly_overview
\* to the figures it computed, adds no other section, and leaves every other
\* section of the document as it was (the store stamps last_updated).
C8_RefreshFrame ==
    \A p \in Tasks :
        Refreshed(p) =>
            /\ DOMAIN overview =
                   (DOMAIN before[p].overview)
                       \cup {"account_balances", "monthly_overview", "last_updated"}
            /\ overview["account_balances"] = O(local[p]["account_balances"])
            /\ overview["monthly_overview"] = O(local[p]["monthly_overview"])
            /\ OthersKept(p, {"account_balances", "monthly_overview"})

\* A refresh has completed on a document that held goals.
C8_Witness ==
    \E p \in Tasks :
        /\ Refreshed(p)
        /\ "goals" \in DOMAIN before[p].overview
        /\ overview["goals"] = before[p].overview["goals"]

\* The budgeted amount of the non-hidden categories of a group.
VisibleSum(g) ==
    SumSeq([j \in 1..Len(g.categories) |->
               IF g.categories[j].hidden THEN 0 ELSE g.categories[j].budgeted])

\* The sum over the non-hidden categories of every group named n.
TotalOfAll(groups, n) ==
    SumSeq([i \in 1..Len(groups) |-> IF groups[i].name = n THEN VisibleSum(groups[i]) ELSE 0])

\* The sum over the non-hidden categories of the last group named n, 0 when
\* no group has that name.
TotalOfLast(groups, n) ==
    LET named == {i \in 1..Len(groups) : groups[i].name = n}
    IN IF named = {} THEN 0
       ELSE VisibleSum(groups[CHOOSE i \in named : \A j \in named : j <= i])

\* C9 as stated: the three figures are the sums over the non-hidden
\* categories of the groups named Bills, Wants and Savings, and savings_rate
\* is savings / (their sum) * 100, or 0 when that sum is zero.
C9_FiguresOfAllGroups ==
    \A p \in Tasks :
        Refreshed(p) =>
            LET g == local[p]["categories"]
                mo == local[p]["monthly_overview"]
                fixed_bills == TotalOfAll(g, "Bills")
                discretionary == TotalOfAll(g, "Wants")
                savings == TotalOfAll(g, "Savings")
                total == fixed_bills + discretionary + savings
            IN /\ RatEq(mo.fixed_bills, Rat(fixed_bills, 1000))
               /\ RatEq(mo.discretionary_spending, Rat(discretionary, 1000))
               /\ mo.savings_rate.den # 0
               /\ RatEq(mo.savings_rate,
                        IF total = 0 THEN Rat(0, 1) ELSE Rat(savings * 100, total))

\* What the code computes where C9 fails: each of the three figures is the
\* sum over the non-hidden categories of the last group of the response
\* named Bills, Wants and Savings (0 when there is none; groups of other
\* names count for nothing), and savings_rate is savings / (their sum) * 100
\* when that sum is positive, 0 when it is zero or negative; no division by
\* zero occurs.
C9_Figures ==
    \A p \in Tasks :
        Refreshed(p) =>
            LET g == local[p]["categories"]
                mo == local[p]["monthly_overview"]
                fixed_bills == TotalOfLast(g, "Bills")
                discretionary == TotalOfLast(g, "Wants")
                savings == TotalOfLast(g, "Savings")
                total == fixed_bills + discretionary + savings
            IN /\ RatEq(mo.fixed_bills, Rat(fixed_bills, 1000))
               /\ RatEq(mo.discretionary_spending, Rat(discretionary, 1000))
               /\ mo.savings_rate.den # 0
               /\ RatEq(mo.savings_rate,
                        IF total > 0 THEN Rat(savings * 100, total) ELSE Rat(0, 1))
               /\ overview["monthly_overview"] = O(mo)

\* A refresh has completed on a Bills group with a visible and a hidden
\* category next to a Savings group, with a positive total.
C9_Witness ==
    \E p \in Tasks :
        /\ Refreshed(p)
        /\ LET g == local[p]["categories"]
           IN /\ Len(g) = 2
              /\ g[1].name = "Bills"
              /\ g[2].name = "Savings"
              /\ \E j \in 1..Len(g[1].categories) : g[1].categories[j].hidden
              /\ VisibleSum(g[1]) + VisibleSum(g[2]) > 0
              /\ VisibleSum(g[2]) # 0

\* C10: an invocation whose name is no registered tool issues no call, to
\* the service or to the notes store, changes nothing, and fails with an
\* error whose message carries the name given.
C10_UnknownTool ==
    \A p \in Tasks :
        (pc[p] # "idle" /\ name[p] \notin ToolNames) =>
            /\ calls[p] = <<>>
            /\ overview = before[p].overview
            /\ budgeted = before[p].budgeted
            /\ pc[p] \in {"dispatch", "done"}
            /\ Done(p) =>
                   /\ result[p].status = "error"
                   /\ \E i \in 1..Len(result[p].msg) : result[p].msg[i] = S(name[p])

\* The invocation of the unregistered name transfer-funds has failed.
C10_Witness ==
    \E p \in Tasks :
        /\ Failed(p)
        /\ name[p] = "transfer-funds"

\* p and q are update-financial-overview-section invocations of different
\* sections that were in flight together and have both completed: both
\* arrived on the same stored document, so neither had saved when the other
\* arrived (every save changes the document's last_updated).
RacingUpdates(p, q) ==
    /\ p # q
    /\ SectionUpdated(p)
    /\ SectionUpdated(q)
    /\ arguments[p]["section"] # arguments[q]["section"]
    /\ before[p].overview = before[q].overview

\* C11 as stated: two update-financial-overview-section invocations in
\* flight together that target different sections race, the later save being
\* computed from a stale document, and the stored document ends up without
\* the section of one of the writers.  The claim is one of possibility: a
\* run in which both sections survive violates this formula, and it is
\* C11_NoLostSection, holding in every interleaving, that rules the claimed
\* outcome out.
C11_LaterSaveDiscards ==
    \A p, q \in Tasks :
        RacingUpdates(p, q) =>
            \E r \in {p, q} : arguments[r]["section"].v \notin DOMAIN overview

\* C11, amended: two update-financial-overview-section invocations in flight
\* together that target different sections do not race in any interleaving:
\* the handler has no suspension point between the store's load and save, so
\* after both complete the stored document holds both sections, each with
\* the data of its writer (last_updated holding the time of the save).
C11_NoLostSection ==
    \A p, q \in Tasks :
        RacingUpdates(p, q) =>
            \A r \in {p, q} :
                LET section == arguments[r]["section"].v
                IN /\ section \in DOMAIN overview
                   /\ section # "last_updated" => overview[section] = arguments[r]["data"]

\* goals and action_items have been written by two invocations that arrived
\* on the same empty document.
C11_Witness ==
    \E p, q \in Tasks :
        /\ RacingUpdates(p, q)
        /\ before[p].overview = EmptyDict
        /\ arguments[p]["section"] = S("goals")
        /\ arguments[q]["section"] = S("action_items")
        /\ {"goals", "action_items"} \subseteq DOMAIN overview

ListingTools ==
    {"list-budgets", "list-accounts", "list-transactions", "list-monthly-transactions",
     "list-categories", "list-payees", "list-scheduled-transactions"}

\* The text of a result is one non-empty string saying that nothing was found.
SaysNoneFound(res) ==
    /\ Len(res.content) = 1
    /\ res.content[1].type = "text"
    /\ Len(res.content[1].text) = 1
    /\ res.content[1].text[1].t = "str"
    /\ res.content[1].text[1].v # ""
    /\ res.content[1].text[1].v \in
           {"No budgets found.", "No accounts found for this budget.",
            "No transactions found for this account.",
            "No transactions found for this month.",
            "No categories found for this budget.", "No payees found for this budget.",
            "No scheduled transactions found."}

\* p is a listing tool whose service call has returned the response r.
Listed(p) ==
    /\ Succeeded(p)
    /\ name[p] \in ListingTools
    /\ "response" \in DOMAIN local[p]

\* C12: a listing tool whose service call returns an empty result set
\* returns exactly one text block holding a non-empty "none found" message,
\* never an empty sequence or an empty block; on a non-empty result set it
\* returns one block that is not that message.
C12_NoneFound ==
    \A p \in Tasks :
        Listed(p) =>
            /\ Len(result[p].content) = 1
            /\ result[p].content[1].text # <<>>
            /\ SaysNoneFound(result[p]) <=> local[p]["response"] = <<>>

\* list-categories has answered an empty result set.
C12_Witness ==
    \E p \in Tasks :
        /\ Listed(p)
        /\ name[p] = "list-categories"
        /\ local[p]["response"] = <<>>
        /\ SaysNoneFound(result[p])

\* The positions of p's bulk-update calls.
UpdatePayeesCalls(p) == {i \in 1..Len(calls[p]) : calls[p][i].op = "update_payees"}

\* p is a rename-payees invocation carrying payee_ids and name.
Renaming(p) ==
    /\ name[p] = "rename-payees"
    /\ {"payee_ids", "name"} \subseteq DOMAIN arguments[p]

\* C13: rename-payees with payee_ids and name present is never rejected for
\* its arguments, whatever the length of the list, zero included; it issues
\* at most one bulk-update call, which carries all the listed ids and the
\* name, and exactly one once it has ended without the default-budget lookup
\* failing; when that call returns, the report gives the length of the list
\* as the count (0 for the empty list).
C13_RenamePayees ==
    \A p \in Tasks :
        Renaming(p) =>
            LET ids == arguments[p]["payee_ids"]
                sent == UpdatePayeesCalls(p)
            IN /\ Cardinality(sent) <= 1
               /\ \A i \in sent :
                      /\ i = Len(calls[p])
                      /\ calls[p][i].kw["payee_ids"] = ids
                      /\ calls[p][i].kw["name"] = arguments[p]["name"]
               /\ Failed(p) =>
                      /\ result[p].kind = "UpstreamServiceError"
                      /\ ~calls[p][Len(calls[p])].ok
               /\ Done(p) /\ (\A i \in Lookups(p) : calls[p][i].ok) => Cardinality(sent) = 1
               /\ Succeeded(p) =>
                      /\ Cardinality(sent) = 1
                      /\ result[p] = TextResult(<<S("Successfully renamed"), I(Len(ids.v)),
                                                  S("payees to"), arguments[p]["name"]>>)

\* rename-payees has completed on an empty list, having issued the call and
\* reporting 0.
C13_Witness ==
    \E p \in Tasks :
        /\ Renaming(p)
        /\ Succeeded(p)
        /\ arguments[p]["payee_ids"] = L(<<>>)
        /\ UpdatePayeesCalls(p) # {}
        /\ result[p].content[1].text[2] = I(0)

\* p is a completed move between two different categories.
Moved(p) ==
    /\ Succeeded(p)
    /\ name[p] = "move-budget-amount"
    /\ arguments[p]["from_category_id"] # arguments[p]["to_category_id"]

\* What the move of p adds to category c: the amount if it is the to
\* category, minus the amount if it is the from category.
MovedInto(p, c) ==
    (IF arguments[p]["to_category_id"].v = c THEN arguments[p]["amount"].v ELSE 0)
    - (IF arguments[p]["from_category_id"].v = c THEN arguments[p]["amount"].v ELSE 0)

\* C14: when two move-budget-amount invocations of one budget and month,
\* each between two different categories, have run together and both
\* completed with every service call succeeding, every category holds its
\* initial amount plus what was moved into it minus what was moved out of
\* it, whatever the interleaving of their service calls, and so the total
\* over the categories is what it was.
C14_MovesSerializable ==
    \A p, q \in Tasks :
        (p # q /\ Moved(p) /\ Moved(q) /\ BudgetOf(p) = BudgetOf(q)) =>
            LET b == BudgetOf(p)
                m == arguments[p]["month"].v
            IN /\ \A c \in Cats :
                      budgeted[<<b, m, c>>]
                          = InitBudgeted(b, m, c) + MovedInto(p, c) + MovedInto(q, c)
               /\ SumSeq([i \in 1..2 |-> budgeted[<<b, m, <<"catA", "catB">>[i]>>]])
                      = SumSeq([i \in 1..2 |-> InitBudgeted(b, m, <<"catA", "catB">>[i])])

====
